---------------------------- MODULE Spec2Model ----------------------------
(***************************************************************************)
(* rcui: a widget tree rendered to a curses terminal and driven by a       *)
(* synchronous render / read key / dispatch loop.                          *)
(*                                                                         *)
(* Spec      the process of src/src/lib.rs: main calls exec (possibly more *)
(*           than once), exec installs the panic hook and runs the loop    *)
(*           over a widget tree built from HBox, VBox, Text, ItemList,     *)
(*           HardProxy and Proxy.                                          *)
(* SpecList  the ItemList operations called directly.                      *)
(* SpecRender one widget tree rendered frame after frame on terminals of   *)
(*           several sizes, the Rects in f32 arithmetic.                   *)
(* SpecCtx   the context-passing runtime that src/examples/04_transfer_    *)
(*           list.rs is written against (event queue, Message events,      *)
(*           focus): its library side is not in src/ and is modelled from  *)
(*           spec.md.                                                      *)
(***************************************************************************)
EXTENDS Integers, Sequences, FiniteSets, TLC

VARIABLES
    \* ---- Spec: the process of lib.rs
    pc,        \* where the process is: "main", the steps of exec, "hook", "dead"
    QUIT,      \* static QUIT: AtomicBool
    hooks,     \* number of exec-installed panic hooks stacked on the default hook
    hookAt,    \* while a panic runs the hook chain: hooks still to run
    oc,        \* the build's overflow checks (debug: TRUE, release: FALSE)
    runs,      \* number of exec calls made so far
    ui,        \* the widget tree handed to the current exec call
    w,         \* the ItemList state of every node of ui: [items, cursor]
    key,       \* the key code returned by the last getch()
    calls,     \* observation: terminal and widget calls made since exec was entered
    keys,      \* observation: key codes read since exec was entered
    log,       \* observation: what the last dispatch delivered, in order
    quitAt,    \* observation: Len(calls) when a dispatch that called quit() ended
    panicIn,   \* observation: where the panic started ("none" while there is none)
    \* ---- SpecList: one ItemList operated directly or through its proxy
    lst,       \* the ItemList: [items, cursor]
    lpc,       \* "run", or "dead" once an operation has panicked
    ret,       \* what the last remove() returned (<<>> if none, else <<item>>)
    lop,       \* observation: the last operation, how many times in a row it has
               \* been applied, and the list when that streak began
    wasEmpty,  \* observation: the list has been empty at some time
    born,      \* observation: the number of items the list was built with
    \* ---- SpecCtx: the runtime that passes a context to the widgets
    capp,      \* the root widget: [name, n], n the number of children of its Row
    cpc,       \* where the driver is: "clear", "render", "getch", "drain",
               \* "stopped", "returned", "dead"
    cq,        \* the context's event queue, each event with its ticket
    cw,        \* the ItemLists of the Row, in child order
    cfocus,    \* the focus index of the Row's group
    cframes,   \* keys read so far
    ctick,     \* observation: events enqueued in this frame
    cseen,     \* observation: the events dispatched in this frame, in order
    clog,      \* observation: what the last dispatch delivered to the children
    cfn,       \* observation: focus_next() calls in a row, and the focus before
    cpre,      \* observation: the lists and the focus when the last key was read
    \* ---- SpecRender: one widget tree rendered again and again
    rui,       \* the widget tree
    rpc,       \* "idle", or the next step of the frame: "rect", "render"
    screen,    \* the Rect that screen_rect() returned
    drawn      \* observation: what the last ui.render(&rect) did, in order

listVars == <<lst, lpc, ret, lop, wasEmpty, born>>

ctxVars == <<capp, cpc, cq, cw, cfocus, cframes, ctick, cseen, clog, cfn,
             cpre>>

renderVars == <<rui, rpc, screen, drawn>>

vars == <<pc, QUIT, hooks, hookAt, oc, runs, ui, w, key, calls, keys, log,
          quitAt, panicIn, listVars, ctxVars, renderVars>>

-----------------------------------------------------------------------------
(* Bounds of the model *)

\* exec calls one process makes
MaxRuns == 2
\* keys read by one exec call
MaxFrames == 3
\* longest ItemList
MaxLen == 3
\* longest run of one ItemList operation applied again and again
MaxStreak == 3

\* largest cursor followed (a release build's down() on an empty list moves
\* the cursor on without end)
MaxCursor == 3

\* what the lists hold
Items == {"a", "b"}
\* most children of a Row
MaxKids == 3
\* items of the first list of the transfer example (n = 10 in the example)
CtxItems == 2
\* keys read by the runtime with a context
CtxFrames == 6
\* widest and highest terminal, in cells
MaxCols == 5
MaxRows == 4

-----------------------------------------------------------------------------
(* Key codes.  getch() returns an i32; the handlers match `*key as u8 as   *)
(* char`, which keeps the low eight bits.                                  *)

KeyQ == 113
KeyS == 115
KeyW == 119
\* a key no example binds ('x')
KeyX == KeyW + 1
\* a key code above 255 whose low byte is 's'
KeyHighS == 256 + KeyS

Keys == {KeyQ, KeyS, KeyW, KeyX, KeyHighS}

AsU8(k) == k % 256

KeyStroke(k) == [type |-> "KeyStroke", key |-> k]

-----------------------------------------------------------------------------
(* ItemList *)

\* usize::MAX, the value `0 - 1` wraps to when overflow checks are off.  The
\* model's integers are 32 bits wide, so the largest of them stands for it;
\* it is only ever compared with a cursor.
UsizeMax == 2147483647

ItemListNew(items) == [items |-> items, cursor |-> 0]

Up(l) == IF l.cursor > 0 THEN [l EXCEPT !.cursor = @ - 1] ELSE l

\* `self.items.len() - 1` on usize: panics on an empty list when the build
\* checks overflow, wraps otherwise
DownPanics(l, checks) == Len(l.items) = 0 /\ checks

LenMinus1(l) == IF Len(l.items) = 0 THEN UsizeMax ELSE Len(l.items) - 1

\* down() without its bound
DownNoGuard(l) == [l EXCEPT !.cursor = @ + 1]

\* down() bounded by the length instead of the last index
DownOffByOne(l) ==
    IF l.cursor < Len(l.items) THEN [l EXCEPT !.cursor = @ + 1] ELSE l

Down(l) == IF l.cursor < LenMinus1(l) THEN [l EXCEPT !.cursor = @ + 1] ELSE l

\* push(item): append to the end; the cursor stays
Push(l, x) == [l EXCEPT !.items = Append(@, x)]

\* remove() has no item to return: the list is empty (or the cursor is past
\* its end)
RemovePanics(l) == l.cursor >= Len(l.items)

\* the item remove() returns
Removed(l) == l.items[l.cursor + 1]

WithoutAt(items, i) ==
    [j \in 1..(Len(items) - 1) |-> IF j < i THEN items[j] ELSE items[j + 1]]

Max(a, b) == IF a >= b THEN a ELSE b

Min(a, b) == IF a <= b THEN a ELSE b

\* remove() that leaves the cursor where it was
RemoveNoClamp(l) ==
    [items |-> WithoutAt(l.items, l.cursor + 1), cursor |-> l.cursor]

\* remove(): take out the item at cursor; the cursor stays unless it is now
\* past the last index, then it is clamped
Remove(l) ==
    LET rest == WithoutAt(l.items, l.cursor + 1)
    IN  [items |-> rest,
         cursor |-> IF l.cursor > Len(rest) - 1
                    THEN Max(Len(rest) - 1, 0)
                    ELSE l.cursor]

NoList == ItemListNew(<<>>)

-----------------------------------------------------------------------------
(* Widget trees.  A tree is a function from node ids to nodes; node 1 is   *)
(* the root.  kind is the implementing type of the Widget trait; "User" is *)
(* a Widget implemented by the application, whose render may panic.        *)

Node(kind, kids, handler, items) ==
    [kind |-> kind, kids |-> kids, handler |-> handler, items |-> items]

\* examples/item_list.rs: a proxy whose handler drives the wrapped ItemList.
\* Its closure takes (root, event), the handler of lib.rs's HardProxy; the
\* example's eight items are cut to three.
AppItemList ==
    1 :> Node("HardProxy", <<2>>, "item_list", <<>>) @@
    2 :> Node("ItemList", <<>>, "", <<"foo", "bar", "baz">>)

\* nested containers over both proxy types
AppBoxes ==
    1 :> Node("HBox", <<2, 3>>, "", <<>>) @@
    2 :> Node("VBox", <<4, 5, 8>>, "", <<>>) @@
    3 :> Node("Proxy", <<6>>, "quit_q", <<>>) @@
    4 :> Node("Text", <<>>, "", <<>>) @@
    5 :> Node("HardProxy", <<7>>, "forward", <<>>) @@
    6 :> Node("ItemList", <<>>, "", <<"a", "b">>) @@
    7 :> Node("HardProxy", <<9>>, "item_list", <<>>) @@
    8 :> Node("HBox", <<>>, "", <<>>) @@
    9 :> Node("ItemList", <<>>, "", <<>>)

\* handlers that suppress and panic, and a widget whose render may panic
AppFaulty ==
    1 :> Node("VBox", <<2, 3, 4>>, "", <<>>) @@
    2 :> Node("HardProxy", <<5>>, "suppress", <<>>) @@
    3 :> Node("Proxy", <<6>>, "panic_x", <<>>) @@
    4 :> Node("User", <<>>, "", <<>>) @@
    5 :> Node("ItemList", <<>>, "", <<"a">>) @@
    6 :> Node("Proxy", <<7>>, "none", <<>>) @@
    7 :> Node("Text", <<>>, "", <<>>)

Apps == {AppItemList, AppBoxes, AppFaulty}

Nodes(t) == DOMAIN t

Root == 1

\* the widget a proxy wraps
Wrapped(t, n) == t[n].kids[1]

NewWidgets(t) == [n \in Nodes(t) |-> ItemListNew(t[n].items)]

-----------------------------------------------------------------------------
(* Dispatch.  handle_event runs to completion inside one step of exec; st  *)
(* carries what it changes: the ItemLists, the QUIT flag, whether a panic  *)
(* is unwinding, and the observation log.                                  *)

Logged(st, n, what, e) ==
    [st EXCEPT !.log = Append(@, [node |-> n, what |-> what, event |-> e])]

\* quit() that stores false
QuitStoresFalse(st) == [st EXCEPT !.quit = FALSE]

\* pub fn quit()
Quit(st) == [st EXCEPT !.quit = TRUE]

Panic(st) == [st EXCEPT !.panicked = TRUE]

CallQuit(st, n, e) == Quit(Logged(st, n, "quit", e))

\* fn(&Event) handlers of Proxy: they see the event and the process globals
SoftHandler(h, st, n, e) ==
    CASE h = "quit_q" ->
            IF AsU8(e.key) = KeyQ THEN CallQuit(st, n, e) ELSE st
      [] h = "panic_x" ->
            IF AsU8(e.key) = KeyX THEN Panic(st) ELSE st
      [] OTHER -> st

\* the handler of examples/item_list.rs, on the wrapped ItemList r
ItemListHandler(st, n, r, e) ==
    CASE AsU8(e.key) = KeyQ -> CallQuit(st, n, e)
      [] AsU8(e.key) = KeyS ->
            IF DownPanics(st.w[r], st.checks)
            THEN Panic(st)
            ELSE [Logged(st, r, "down", e) EXCEPT !.w[r] = Down(@)]
      [] AsU8(e.key) = KeyW ->
            [Logged(st, r, "up", e) EXCEPT !.w[r] = Up(@)]
      [] OTHER -> st

RECURSIVE HandleEvent(_, _, _, _)
RECURSIVE ForwardAll(_, _, _, _, _)

\* fn(&mut T, &Event) handlers of HardProxy, on the wrapped widget r
HardHandler(t, h, st, n, r, e) ==
    CASE h = "item_list" -> ItemListHandler(st, n, r, e)
      [] h = "forward" -> HandleEvent(t, r, e, Logged(st, n, "forward", e))
      [] OTHER -> st

\* the loop of HBox::handle_event and VBox::handle_event, from child i on
ForwardAll(t, kids, i, e, st) ==
    IF i > Len(kids) \/ st.panicked
    THEN st
    ELSE ForwardAll(t, kids, i + 1, e, HandleEvent(t, kids[i], e, st))

\* a container that forgets its first child
BoxSkipsFirst(t, n, e, st) == ForwardAll(t, t[n].kids, 2, e, st)

BoxHandleEvent(t, n, e, st) == ForwardAll(t, t[n].kids, 1, e, st)

HardProxyHandleEvent(t, n, e, st) ==
    HardHandler(t, t[n].handler, Logged(st, n, "handler", e), n, Wrapped(t, n), e)

\* a Proxy that runs its handler and does not forward
ProxyNoForward(t, n, e, st) ==
    SoftHandler(t[n].handler, Logged(st, n, "handler", e), n, e)

\* a Proxy that forwards first and runs its handler afterwards
ProxyForwardsFirst(t, n, e, st) ==
    LET s1 == HandleEvent(t, Wrapped(t, n), e, st)
    IN  IF s1.panicked THEN s1
        ELSE SoftHandler(t[n].handler, Logged(s1, n, "handler", e), n, e)

ProxyHandleEvent(t, n, e, st) ==
    LET s1 == SoftHandler(t[n].handler, Logged(st, n, "handler", e), n, e)
    IN  IF s1.panicked THEN s1 ELSE HandleEvent(t, Wrapped(t, n), e, s1)

\* Widget::handle_event of node n
HandleEvent(t, n, e, st) ==
    LET s0 == Logged(st, n, "recv", e)
    IN  CASE t[n].kind \in {"HBox", "VBox"} -> BoxHandleEvent(t, n, e, s0)
          [] t[n].kind = "HardProxy" -> HardProxyHandleEvent(t, n, e, s0)
          [] t[n].kind = "Proxy" -> ProxyHandleEvent(t, n, e, s0)
          [] OTHER -> s0

\* ui.handle_event(&Event::KeyStroke(key)) from exec
Dispatched(t, ws, q, checks, e) ==
    HandleEvent(t, Root, e,
                [w |-> ws, quit |-> q, checks |-> checks, panicked |-> FALSE,
                 log |-> <<>>])

-----------------------------------------------------------------------------
(* Render.  Only whether it returns matters to exec: the library's widgets *)
(* return, a Widget of the application may panic.                          *)

RenderOutcomes(t) ==
    {"ok"} \cup IF \E n \in Nodes(t) : t[n].kind = "User" THEN {"panic"} ELSE {}

-----------------------------------------------------------------------------
(* f32 arithmetic.  Every coordinate of a Rect is an f32.  The values that *)
(* layout computes are zero or positive and normal, so an f32 is m * 2^e   *)
(* with m = 0, or with m of exactly Digits bits; every operation rounds    *)
(* the exact result to the nearest such value, ties to the even m.         *)

\* bits of the significand of an f32
Digits == 24

RECURSIVE Pow2(_)
Pow2(k) == IF k <= 0 THEN 1 ELSE 2 * Pow2(k - 1)

\* the number of bits of M
RECURSIVE BitLen(_)
BitLen(M) == IF M = 0 THEN 0 ELSE 1 + BitLen(M \div 2)

F32(m, e) == [m |-> m, e |-> e]

Zero == F32(0, 0)

\* M / 2^s rounded to the nearest integer, ties to even; sticky: the exact
\* value is a little above M
RoundShift(M, s, sticky) ==
    LET d == Pow2(s)
        q == M \div d
        r == M % d
    IN  IF s = 0 THEN M
        ELSE IF 2 * r > d \/ (2 * r = d /\ (sticky \/ q % 2 = 1))
             THEN q + 1
             ELSE q

\* the f32 nearest to M * 2^e (a little above it if sticky)
Nearest(M, e, sticky) ==
    LET b == BitLen(M)
        s == b - Digits
        q == RoundShift(M, s, sticky)
    IN  IF M = 0 THEN Zero
        ELSE IF b <= Digits THEN F32(M * Pow2(Digits - b), e - (Digits - b))
        ELSE IF q = Pow2(Digits) THEN F32(Pow2(Digits - 1), e + s + 1)
        ELSE F32(q, e + s)

\* n as f32, for a usize or i32 n >= 0 of at most Digits bits
AsF32(n) == Nearest(n, 0, FALSE)

\* a / n as f32, n > 0
DivUsize(a, n) ==
    LET j == BitLen(n) + 1
        X == a.m * Pow2(j)
    IN  Nearest(X \div n, a.e - j, X % n # 0)

\* a * i as f32
MulUsize(a, i) == Nearest(a.m * i, a.e, FALSE)

\* a + b: the smaller operand is shifted down to the larger one's exponent,
\* three more bits are kept and the bits lost below them are remembered
FAdd(a, b) ==
    LET big == IF a.e >= b.e THEN a ELSE b
        small == IF a.e >= b.e THEN b ELSE a
        d == big.e - small.e
        S8 == small.m * 8
    IN  IF a.m = 0 THEN b
        ELSE IF b.m = 0 THEN a
        ELSE IF d > Digits + 2 THEN big
        ELSE Nearest(big.m * 8 + S8 \div Pow2(d), big.e - 3, S8 % Pow2(d) # 0)

\* a >= b
FGe(a, b) ==
    IF b.m = 0 THEN TRUE
    ELSE IF a.m = 0 THEN FALSE
    ELSE a.e > b.e \/ (a.e = b.e /\ a.m >= b.m)

\* a as i32, a as usize, a.floor(): the whole part
Trunc(a) ==
    IF a.e >= 0 THEN a.m * Pow2(a.e)
    ELSE IF -a.e >= Digits THEN 0
    ELSE a.m \div Pow2(-a.e)

-----------------------------------------------------------------------------
(* Rendering.  render(&rect) runs to completion inside one step; what it   *)
(* does is kept as a sequence: the Rect every widget was handed, and every *)
(* mv() of a Text, with the screen line and column it went to.             *)

Rect(x, y, ww, h) == [x |-> x, y |-> y, w |-> ww, h |-> h]

\* screen_rect() on a terminal of cols x rows cells
ScreenRectOf(cols, rows) == Rect(Zero, Zero, AsF32(cols), AsF32(rows))

\* HBox::render with every child at the left edge
HBoxChildNoOffset(rect, n, i) ==
    Rect(rect.x, rect.y, DivUsize(rect.w, n), rect.h)

\* HBox::render: the Rect of child i (from 0) of n
HBoxChild(rect, n, i) ==
    LET widget_w == DivUsize(rect.w, n)
    IN  Rect(FAdd(rect.x, MulUsize(widget_w, i)), rect.y, widget_w, rect.h)

\* VBox::render: the Rect of child i (from 0) of n
VBoxChild(rect, n, i) ==
    LET widget_h == DivUsize(rect.h, n)
    IN  Rect(rect.x, FAdd(rect.y, MulUsize(widget_h, i)), rect.w, widget_h)

\* ItemList::render: the Rect of the Text of item i (from 0)
RowRect(rect, i) == Rect(rect.x, FAdd(rect.y, AsF32(i)), rect.w, AsF32(1))

\* ItemList::render's loop from item i on: the item is drawn, and then the
\* loop ends if i as f32 >= rect.h
RECURSIVE ItemRows(_, _, _)
ItemRows(len, rect, i) ==
    IF i >= len THEN <<>>
    ELSE <<i>> \o (IF FGe(AsF32(i), rect.h) THEN <<>>
                   ELSE ItemRows(len, rect, i + 1))

Drawn(n, what, i, rect) ==
    [node |-> n, what |-> what, i |-> i, rect |-> rect,
     line |-> Trunc(rect.y), col |-> Trunc(rect.x)]

\* Text::render, left and top aligned: mv(rect.y as i32, rect.x as i32), and
\* the text is written from there
TextRender(n, i, rect) == <<Drawn(n, "mv", i, rect)>>

ItemListRender(t, n, rect) ==
    LET rows == ItemRows(Len(t[n].items), rect, 0)
        Row(k) == TextRender(n, rows[k], RowRect(rect, rows[k]))[1]
    IN  [k \in 1..Len(rows) |-> Row(k)]

RECURSIVE RenderWidget(_, _, _)
RECURSIVE RenderKids(_, _, _, _)

\* the loop of HBox::render and VBox::render from child i on (from 0)
RenderKids(t, n, rect, i) ==
    LET kids == t[n].kids
        child == IF t[n].kind = "HBox"
                 THEN HBoxChild(rect, Len(kids), i)
                 ELSE VBoxChild(rect, Len(kids), i)
    IN  IF i >= Len(kids) THEN <<>>
        ELSE RenderWidget(t, kids[i + 1], child)
                \o RenderKids(t, n, rect, i + 1)

\* widget n's render(&rect)
RenderWidget(t, n, rect) ==
    <<Drawn(n, "render", 0, rect)>> \o
    CASE t[n].kind \in {"HBox", "VBox"} -> RenderKids(t, n, rect, 0)
      [] t[n].kind \in {"Proxy", "HardProxy"} ->
            RenderWidget(t, Wrapped(t, n), rect)
      [] t[n].kind = "ItemList" -> ItemListRender(t, n, rect)
      [] t[n].kind = "Text" -> TextRender(n, 0, rect)
      [] OTHER -> <<>>

\* a Row of five, one of them a Column
AppRow ==
    1 :> Node("HBox", <<2, 3, 4, 5, 6>>, "", <<>>) @@
    2 :> Node("Text", <<>>, "", <<>>) @@
    3 :> Node("ItemList", <<>>, "", <<"a", "b", "c">>) @@
    4 :> Node("VBox", <<7, 8, 9>>, "", <<>>) @@
    5 :> Node("Text", <<>>, "", <<>>) @@
    6 :> Node("Proxy", <<10>>, "none", <<>>) @@
    7 :> Node("Text", <<>>, "", <<>>) @@
    8 :> Node("ItemList", <<>>, "", <<"a", "b">>) @@
    9 :> Node("Text", <<>>, "", <<>>) @@
    10 :> Node("ItemList", <<>>, "", <<"a">>)

\* a Column of four, one of them a Row
AppColumn ==
    1 :> Node("VBox", <<2, 3, 4, 5>>, "", <<>>) @@
    2 :> Node("ItemList", <<>>, "", <<"a", "b", "c">>) @@
    3 :> Node("HBox", <<6, 7, 8>>, "", <<>>) @@
    4 :> Node("Text", <<>>, "", <<>>) @@
    5 :> Node("HardProxy", <<9>>, "item_list", <<>>) @@
    6 :> Node("Text", <<>>, "", <<>>) @@
    7 :> Node("Text", <<>>, "", <<>>) @@
    8 :> Node("Text", <<>>, "", <<>>) @@
    9 :> Node("ItemList", <<>>, "", <<"a", "b", "c">>)

LayoutApps == {AppItemList, AppBoxes, AppRow, AppColumn}

RenderIdle ==
    /\ rui = AppItemList
    /\ rpc = "idle"
    /\ screen = ScreenRectOf(0, 0)
    /\ drawn = <<>>

-----------------------------------------------------------------------------
(* The runtime with a context (SpecCtx).  examples/04_transfer_list.rs is  *)
(* written against it: handlers take (widget, context, event), events may  *)
(* be Messages, the context queues events, the Row has a focus.  Its       *)
(* library side is not in src/; it follows spec.md 3 - 5.                  *)

KeyJ == 106
KeyK == 107
KeyEnter == 10
KeyTab == 9

CtxKeys == {KeyJ, KeyK, KeyEnter, KeyTab, KeyQ}

CtxKeyStroke(k) == [type |-> "KeyStroke", key |-> k, text |-> ""]

Message(text) == [type |-> "Message", key |-> 0, text |-> text]

QuitEvent == [type |-> "Quit", key |-> 0, text |-> ""]

\* format!("foo-{}", x) for x in 0..n
FooItems(n) == [i \in 1..n |-> "foo-" \o ToString(i - 1)]

\* the root widget of the transfer example with n lists in its Row (the
\* example has two), and a root whose handler enqueues several events
CtxApps ==
    {[name |-> "transfer", n |-> n] : n \in 0..MaxKids}
    \cup {[name |-> "fanout", n |-> 0]}

\* the lists of the example: the first holds the items, the others are empty
CtxLists(n) ==
    [i \in 1..n |-> ItemListNew(IF i = 1 THEN FooItems(CtxItems) ELSE <<>>)]

\* context.push_event(ev)
CtxPush(st, ev) ==
    [st EXCEPT !.q = Append(@, [ev |-> ev, tick |-> st.tick + 1]),
               !.tick = @ + 1]

\* context.quit(): termination is requested by enqueuing Quit
CtxQuit(st) == CtxPush(st, QuitEvent)

\* the driver takes the event at the back of the queue
CtxPoppedBack(q) == [ev |-> q[Len(q)], rest |-> SubSeq(q, 1, Len(q) - 1)]

\* the driver pops the front of the queue
CtxPopped(q) == [ev |-> Head(q), rest |-> Tail(q)]

\* focus_next() without the wrap
FocusNextNoWrap(focus, n) == IF n = 0 THEN focus ELSE focus + 1

\* Group::focus_next()
FocusNext(focus, n) == IF n = 0 THEN focus ELSE (focus + 1) % n

CtxLogged(st, what, i, ev) ==
    [st EXCEPT !.log = Append(@, [what |-> what, child |-> i, event |-> ev])]

\* item_list_controls with a handler that lets a Message pass unused
ControlsDropMessage(st, i, ev) ==
    CASE ev.type = "KeyStroke" ->
            CASE AsU8(ev.key) = KeyJ ->
                    IF DownPanics(st.w[i], st.checks)
                    THEN Panic(st)
                    ELSE [st EXCEPT !.w[i] = Down(@)]
              [] AsU8(ev.key) = KeyK -> [st EXCEPT !.w[i] = Up(@)]
              [] AsU8(ev.key) = KeyEnter ->
                    IF RemovePanics(st.w[i])
                    THEN Panic(st)
                    ELSE CtxPush([st EXCEPT !.w[i] = Remove(@)],
                                 Message(Removed(st.w[i])))
              [] OTHER -> st
      [] OTHER -> st

\* the handler of item_list_controls, on list i of the Row (1 is the first)
ControlsHandler(st, i, ev) ==
    CASE ev.type = "KeyStroke" ->
            CASE AsU8(ev.key) = KeyJ ->
                    IF DownPanics(st.w[i], st.checks)
                    THEN Panic(st)
                    ELSE [st EXCEPT !.w[i] = Down(@)]
              [] AsU8(ev.key) = KeyK -> [st EXCEPT !.w[i] = Up(@)]
              [] AsU8(ev.key) = KeyEnter ->
                    IF RemovePanics(st.w[i])
                    THEN Panic(st)
                    ELSE CtxPush([st EXCEPT !.w[i] = Remove(@)],
                                 Message(Removed(st.w[i])))
              [] OTHER -> st
      [] ev.type = "Message" -> [st EXCEPT !.w[i] = Push(@, ev.text)]
      [] OTHER -> st

\* Proxy::handle_event of child i: the handler decides everything
ChildHandleEvent(st, i, ev) == ControlsHandler(CtxLogged(st, "recv", i, ev), i, ev)

\* Row::handle_event: to the child at the focus index only
GroupHandleEvent(st, ev) ==
    IF st.focus < Len(st.w) THEN ChildHandleEvent(st, st.focus + 1, ev) ELSE st

\* a root handler that hands the keys to the child it hands the Messages to
TransferKeysToSibling(st, ev) ==
    CASE ev.type = "KeyStroke" ->
            CASE AsU8(ev.key) = KeyQ -> CtxQuit(st)
              [] AsU8(ev.key) = KeyTab ->
                    [CtxLogged(st, "focus_next", 0, ev)
                        EXCEPT !.focus = FocusNext(@, Len(st.w))]
              [] OTHER ->
                    IF Len(st.w) # 2
                    THEN GroupHandleEvent(st, ev)
                    ELSE ChildHandleEvent(st, (1 - st.focus) + 1, ev)
      [] ev.type = "Message" ->
            IF Len(st.w) # 2
            THEN Panic(st)
            ELSE ChildHandleEvent(st, (1 - st.focus) + 1, ev)
      [] OTHER -> st

\* the handler of the example's root proxy, on its Row
TransferHandler(st, ev) ==
    CASE ev.type = "KeyStroke" ->
            CASE AsU8(ev.key) = KeyQ -> CtxQuit(st)
              [] AsU8(ev.key) = KeyTab ->
                    [CtxLogged(st, "focus_next", 0, ev)
                        EXCEPT !.focus = FocusNext(@, Len(st.w))]
              [] OTHER -> GroupHandleEvent(st, ev)
      [] ev.type = "Message" ->
            IF Len(st.w) # 2
            THEN Panic(st)
            ELSE ChildHandleEvent(st, (1 - st.focus) + 1, ev)
      [] OTHER -> st

\* a handler that answers a key with three Messages and the first of them
\* with a fourth
FanoutHandler(st, ev) ==
    CASE ev.type = "KeyStroke" ->
            CtxPush(CtxPush(CtxPush(st, Message("a")), Message("b")),
                    Message("c"))
      [] ev.type = "Message" /\ ev.text = "a" -> CtxPush(st, Message("d"))
      [] OTHER -> st

\* ui.handle_event(context, event) from the driver
CtxDispatched(app, st, ev) ==
    IF app.name = "transfer" THEN TransferHandler(st, ev) ELSE FanoutHandler(st, ev)

CtxIdle ==
    /\ capp = [name |-> "none", n |-> 0]
    /\ cpc = "idle"
    /\ cq = <<>>
    /\ cw = <<>>
    /\ cfocus = 0
    /\ cframes = 0
    /\ ctick = 0
    /\ cseen = <<>>
    /\ clog = <<>>
    /\ cfn = [n |-> 0, from |-> 0]
    /\ cpre = [w |-> <<>>, focus |-> 0]

-----------------------------------------------------------------------------
(* An ItemList on its own: built by ItemList::new, then operated through   *)
(* its methods or through the proxy of examples/item_list.rs.              *)

Last(s) == s[Len(s)]

SeqsUpTo(S, n) == UNION {[1..k -> S] : k \in 0..n}

\* the observation of operation op applied to list l: op, the number of
\* times in a row it has now been applied (n), how many of these came
\* through the proxy (keys), the list when the streak began (from), the list
\* just before this application (prev), and whether it returned (ok)
Observed(op, l, viaKey, ok) ==
    LET k == IF viaKey THEN 1 ELSE 0
    IN  IF lop.op = op /\ op \in {"up", "down", "push", "remove"}
        THEN [lop EXCEPT !.n = @ + 1, !.keys = @ + k, !.prev = l, !.ok = ok]
        ELSE [op |-> op, n |-> 1, keys |-> k, from |-> l, prev |-> l,
              ok |-> ok]

MayRepeat(op) == lop.op = op => lop.n < MaxStreak

NoOp(op, l) ==
    [op |-> op, n |-> 0, keys |-> 0, from |-> l, prev |-> l, ok |-> TRUE]

ListIdle ==
    /\ lst = NoList
    /\ lpc = "idle"
    /\ ret = <<>>
    /\ lop = NoOp("none", NoList)
    /\ wasEmpty = FALSE
    /\ born = 0

ListDone(op, m, viaKey) ==
    /\ m.cursor <= MaxCursor
    /\ lst' = m
    /\ lop' = Observed(op, lst, viaKey, TRUE)
    /\ wasEmpty' = (wasEmpty \/ Len(m.items) = 0)
    /\ UNCHANGED born

\* the operation panics: nothing is changed and the process ends
ListPanic(op, viaKey) ==
    /\ lpc' = "dead"
    /\ lop' = Observed(op, lst, viaKey, FALSE)
    /\ UNCHANGED <<lst, wasEmpty, born>>

ProcIdle ==
    /\ pc = "main"
    /\ QUIT = FALSE
    /\ hooks = 0
    /\ hookAt = 0
    /\ runs = 0
    /\ ui = AppItemList
    /\ w = NewWidgets(AppItemList)
    /\ key = 0
    /\ calls = <<>>
    /\ keys = <<>>
    /\ log = <<>>
    /\ quitAt = 0
    /\ panicIn = "none"

procVars == <<pc, hooks, hookAt, runs, ui, w, key, calls, keys, log, quitAt,
              panicIn>>

\* ItemList::new(items)
InitList ==
    /\ ProcIdle
    /\ RenderIdle
    /\ oc \in BOOLEAN
    /\ \E items \in SeqsUpTo(Items, MaxLen) :
          /\ lst = ItemListNew(items)
          /\ lop = NoOp("new", ItemListNew(items))
          /\ wasEmpty = (Len(items) = 0)
          /\ born = Len(items)
    /\ lpc = "run"
    /\ ret = <<>>
    /\ CtxIdle

ListUp ==
    /\ lpc = "run"
    /\ MayRepeat("up")
    /\ ListDone("up", Up(lst), FALSE)
    /\ UNCHANGED <<lpc, ret, QUIT, oc, procVars, ctxVars, renderVars>>

ListDown ==
    /\ lpc = "run"
    /\ MayRepeat("down")
    /\ IF DownPanics(lst, oc)
       THEN ListPanic("down", FALSE) /\ UNCHANGED ret
       ELSE ListDone("down", Down(lst), FALSE) /\ UNCHANGED <<lpc, ret>>
    /\ UNCHANGED <<QUIT, oc, procVars, ctxVars, renderVars>>

ListPush ==
    /\ lpc = "run"
    /\ Len(lst.items) < MaxLen
    /\ \E x \in Items : ListDone("push", Push(lst, x), FALSE)
    /\ UNCHANGED <<lpc, ret, QUIT, oc, procVars, ctxVars, renderVars>>

ListRemove ==
    /\ lpc = "run"
    /\ IF RemovePanics(lst)
       THEN ListPanic("remove", FALSE) /\ UNCHANGED ret
       ELSE /\ ListDone("remove", Remove(lst), FALSE)
            /\ ret' = <<Removed(lst)>>
            /\ UNCHANGED lpc
    /\ UNCHANGED <<QUIT, oc, procVars, ctxVars, renderVars>>

\* the proxy of examples/item_list.rs around the list receives KeyStroke(k)
ListKey ==
    /\ lpc = "run"
    /\ \E k \in Keys :
          LET st == HardProxyHandleEvent(AppItemList, Root, KeyStroke(k),
                        [w |-> (1 :> NoList @@ 2 :> lst), quit |-> QUIT,
                         checks |-> oc, panicked |-> FALSE, log |-> <<>>])
              op == IF AsU8(k) = KeyS THEN "down"
                    ELSE IF AsU8(k) = KeyW THEN "up" ELSE "key"
          IN  /\ MayRepeat(op)
              /\ QUIT' = st.quit
              /\ IF st.panicked
                 THEN ListPanic(op, TRUE) /\ UNCHANGED ret
                 ELSE ListDone(op, st.w[2], TRUE) /\ UNCHANGED <<lpc, ret>>
    /\ UNCHANGED <<oc, procVars, ctxVars, renderVars>>

NextList ==
    \/ ListUp
    \/ ListDown
    \/ ListPush
    \/ ListRemove
    \/ ListKey

SpecList == InitList /\ [][NextList]_vars

-----------------------------------------------------------------------------
(* Properties of the ItemList (SpecList) *)

CursorInRange(l) == 0 <= l.cursor /\ l.cursor < Len(l.items)

DownSigned(p) ==
    IF p.cursor < Len(p.items) - 1 THEN [p EXCEPT !.cursor = @ + 1] ELSE p

\* C14: on every list, the empty one too, down() completes normally and moves
\* the cursor on by one exactly when cursor < items.length - 1 (signed), else
\* leaves it; on an empty list it neither fails nor moves the cursor.
C14_DownSignedCompare ==
    lop.op = "down" => lop.ok /\ lst = DownSigned(lop.prev)

\* C14 on the lists that hold an item: there it is as claimed
C14_DownOnNonEmpty ==
    (lop.op = "down" /\ Len(lop.prev.items) > 0) =>
        lop.ok /\ lst = DownSigned(lop.prev)

\* down() on an empty list in a build without overflow checks has moved the
\* cursor; in a build with them it has panicked
C14_DownOnEmpty ==
    /\ lop.op = "down"
    /\ lop.prev = NoList
    /\ IF oc THEN ~lop.ok /\ lpc = "dead" ELSE lop.ok /\ lst.cursor = 1

-----------------------------------------------------------------------------
(* The driver of the runtime with a context *)

otherVars == <<pc, QUIT, hooks, hookAt, runs, ui, w, key, calls, keys, log,
               quitAt, panicIn, listVars, renderVars>>

\* Rcui::exec(ui): the terminal is set up, the context is new
InitCtx ==
    /\ ProcIdle
    /\ ListIdle
    /\ RenderIdle
    /\ oc \in BOOLEAN
    /\ capp \in CtxApps
    /\ cw = CtxLists(capp.n)
    /\ cpc = "clear"
    /\ cq = <<>>
    /\ cfocus = 0
    /\ cframes = 0
    /\ ctick = 0
    /\ cseen = <<>>
    /\ clog = <<>>
    /\ cfn = [n |-> 0, from |-> 0]
    /\ cpre = [w |-> cw, focus |-> 0]

CtxClear ==
    /\ cpc = "clear"
    /\ cpc' = "render"
    /\ UNCHANGED <<capp, cq, cw, cfocus, cframes, ctick, cseen, clog, cfn, cpre>>
    /\ UNCHANGED <<oc, otherVars>>

CtxRender ==
    /\ cpc = "render"
    /\ cpc' = "getch"
    /\ UNCHANGED <<capp, cq, cw, cfocus, cframes, ctick, cseen, clog, cfn, cpre>>
    /\ UNCHANGED <<oc, otherVars>>

\* block for one key and enqueue it as a KeyStroke
CtxGetch ==
    /\ cpc = "getch"
    /\ cframes < CtxFrames
    /\ cframes' = cframes + 1
    /\ \E k \in CtxKeys : cq' = Append(cq, [ev |-> CtxKeyStroke(k), tick |-> 1])
    /\ ctick' = 1
    /\ cseen' = <<>>
    /\ cpre' = [w |-> cw, focus |-> cfocus]
    /\ cpc' = "drain"
    /\ UNCHANGED <<capp, cw, cfocus, clog, cfn>>
    /\ UNCHANGED <<oc, otherVars>>

\* pop one event: Quit stops the loop, anything else goes to the root widget
CtxDrain ==
    /\ cpc = "drain"
    /\ cq # <<>>
    /\ LET p == CtxPopped(cq)
           st == CtxDispatched(capp,
                     [w |-> cw, focus |-> cfocus, q |-> p.rest, tick |-> ctick,
                      checks |-> oc, panicked |-> FALSE, log |-> <<>>],
                     p.ev.ev)
           moved == \E i \in 1..Len(st.log) : st.log[i].what = "focus_next"
       IN  IF p.ev.ev.type = "Quit"
           THEN /\ cpc' = "stopped"
                /\ cq' = p.rest
                /\ UNCHANGED <<cw, cfocus, ctick, cseen, clog, cfn>>
           ELSE /\ cpc' = IF st.panicked THEN "dead" ELSE "drain"
                /\ cq' = st.q
                /\ cw' = st.w
                /\ cfocus' = st.focus
                /\ ctick' = st.tick
                /\ cseen' = Append(cseen, p.ev)
                /\ clog' = st.log
                /\ cfn' = IF moved
                          THEN IF cfn.n = 0
                               THEN [n |-> 1, from |-> cfocus]
                               ELSE [cfn EXCEPT !.n = @ + 1]
                          ELSE IF p.ev.ev.type = "KeyStroke"
                               THEN [n |-> 0, from |-> 0]
                               ELSE cfn
    /\ UNCHANGED <<capp, cframes, cpre>>
    /\ UNCHANGED <<oc, otherVars>>

\* the queue is empty: the next frame
CtxDrained ==
    /\ cpc = "drain"
    /\ cq = <<>>
    /\ cpc' = "clear"
    /\ UNCHANGED <<capp, cq, cw, cfocus, cframes, ctick, cseen, clog, cfn, cpre>>
    /\ UNCHANGED <<oc, otherVars>>

\* Stopped: the terminal is restored and control returns to the caller
CtxStop ==
    /\ cpc = "stopped"
    /\ cpc' = "returned"
    /\ UNCHANGED <<capp, cq, cw, cfocus, cframes, ctick, cseen, clog, cfn, cpre>>
    /\ UNCHANGED <<oc, otherVars>>

NextCtx ==
    \/ CtxClear
    \/ CtxRender
    \/ CtxGetch
    \/ CtxDrain
    \/ CtxDrained
    \/ CtxStop

SpecCtx == InitCtx /\ [][NextCtx]_vars

-----------------------------------------------------------------------------
(* Properties of the runtime with a context (SpecCtx) *)

Texts(s) == [i \in 1..Len(s) |-> s[i].ev.text]

\* C8: the events of a frame are dispatched in the order in which they were
\* enqueued, none skipped, and what is still queued follows in that order;
\* with A, B, C queued, an event that A's handler enqueues is dispatched
\* after C.
C8_DispatchIsFifo ==
    /\ \A i \in 1..Len(cseen) : cseen[i].tick = i
    /\ cpc = "drain" => \A j \in 1..Len(cq) : cq[j].tick = Len(cseen) + j
    /\ (capp.name = "fanout" /\ cpc = "drain" /\ cq = <<>>) =>
          Texts(cseen) = <<"", "a", "b", "c", "d">>

\* C8 witness: A, B and C were queued together, A's handler enqueued D, and
\* all four have been dispatched
C8_Witness ==
    /\ capp.name = "fanout"
    /\ cpc = "drain"
    /\ cq = <<>>
    /\ Len(cseen) = 5
    /\ cseen[5].ev = Message("d")

\* C10: with N > 0 children the focus stays within 0 .. N-1, k focus_next()
\* calls in a row take it from f to (f + k) mod N, so N of them bring it back
\* to f; with no children focus_next() changes nothing.
C10_FocusNextCycles ==
    LET N == Len(cw)
    IN  /\ N > 0 => 0 <= cfocus /\ cfocus < N
        /\ (N > 0 /\ cfn.n > 0) => cfocus = (cfn.from + cfn.n) % N
        /\ (N > 0 /\ cfn.n = N) => cfocus = cfn.from
        /\ N = 0 => cfocus = 0

\* C10 witness: three children, focus_next() called three times in a row
\* starting at child 0, the focus is at child 0 again
C10_Witness ==
    /\ Len(cw) = 3
    /\ cfn = [n |-> 3, from |-> 0]
    /\ cfocus = 0

\* the list that had the focus when the frame's key was read, its sibling,
\* and the item at its cursor
Source == cpre.focus + 1

Sibling == (1 - cpre.focus) + 1

Selected == cpre.w[Source].items[cpre.w[Source].cursor + 1]

\* this frame's key is Enter, read while the focused list of the two was not
\* empty, and it has been dispatched
EnterOnNonEmpty ==
    /\ capp = [name |-> "transfer", n |-> 2]
    /\ Len(cseen) >= 1
    /\ cseen[1].ev = CtxKeyStroke(KeyEnter)
    /\ Len(cpre.w[Source].items) > 0

\* C11: with two lists, Enter on the focused non-empty list removes the
\* selected item from it and enqueues a Message with that item's text; the
\* Message goes to the sibling, which appends it: the source is one shorter,
\* the destination one longer, and its last item is the removed item.
C11_Transfer ==
    EnterOnNonEmpty =>
        /\ cpc # "dead"
        /\ CursorInRange(cpre.w[Source])
        /\ Len(cseen) <= 2
        /\ cw[Source] = Remove(cpre.w[Source])
        /\ Len(cw[Source].items) = Len(cpre.w[Source].items) - 1
        /\ Len(cseen) = 1 =>
              /\ cq = <<[ev |-> Message(Selected), tick |-> 2]>>
              /\ cw[Sibling] = cpre.w[Sibling]
        /\ Len(cseen) = 2 =>
              /\ cseen[2].ev = Message(Selected)
              /\ cq = <<>>
              /\ clog = <<[what |-> "recv", child |-> Sibling,
                           event |-> Message(Selected)]>>
              /\ Len(cw[Sibling].items) = Len(cpre.w[Sibling].items) + 1
              /\ Last(cw[Sibling].items) = Selected
              /\ cw[Sibling].cursor = cpre.w[Sibling].cursor

\* C11 where the build checks overflow: the exchange is as claimed
C11_TransferChecked == oc => C11_Transfer

\* an exchange that went as claimed: the second list gave its item back
C11_Exchanged ==
    /\ EnterOnNonEmpty
    /\ Len(cseen) = 2
    /\ Source = 2
    /\ Len(cw[1].items) = CtxItems
    /\ Last(cw[1].items) = "foo-0"

\* the children that received something in the last dispatch
Receipts == SelectSeq(clog, LAMBDA x : x.what = "recv")

\* C16: an event that the root hands to the Row's handle_event goes to the
\* child at the focus index, once, and to no other child; the keys the root
\* keeps for itself (quit, focus_next) reach no child.
C16_OnlyFocusedChild ==
    (capp.name = "transfer" /\ cseen # <<>>
        /\ Last(cseen).ev.type = "KeyStroke") =>
        LET ev == Last(cseen).ev
        IN  /\ \A i \in 1..Len(Receipts) :
                  /\ Receipts[i].child = cfocus + 1
                  /\ Receipts[i].event = ev
            /\ Len(Receipts) =
                  IF AsU8(ev.key) \in {KeyQ, KeyTab} \/ Len(cw) = 0
                  THEN 0 ELSE 1

\* C16 witness: three children, the focus on the last one, a key delivered
\* to it and to no other
C16_Witness ==
    /\ Len(cw) = 3
    /\ cfocus = 2
    /\ cseen # <<>>
    /\ Last(cseen).ev = CtxKeyStroke(KeyK)
    /\ Len(Receipts) = 1
    /\ Receipts[1].child = 3

\* the items of a list, as a set
ItemSet(l) == {l.items[i] : i \in 1..Len(l.items)}

\* the items that are in a queued Message
InFlight == {j \in 1..Len(cq) : cq[j].ev.type = "Message"}

\* C19: with two lists no item is lost, duplicated or left in flight: at
\* every render the two lists together hold the items the first one began
\* with, each once, and the queue is empty; an item is in flight only while
\* the queue is drained, and the focus does not change while it is.
C19_NoItemLostOrInFlight ==
    capp = [name |-> "transfer", n |-> 2] =>
        /\ cpc = "render" =>
              /\ Len(cw[1].items) + Len(cw[2].items) = CtxItems
              /\ ItemSet(cw[1]) \cup ItemSet(cw[2])
                    = {FooItems(CtxItems)[i] : i \in 1..CtxItems}
              /\ cq = <<>>
        /\ InFlight # {} =>
              /\ cpc = "drain"
              /\ Cardinality(InFlight) = 1
              /\ Len(cw[1].items) + Len(cw[2].items) = CtxItems - 1
              /\ cfocus = cpre.focus

\* C19 witness: a frame is rendered after every item went over to the
\* second list and the first of them came back
C19_Witness ==
    /\ capp = [name |-> "transfer", n |-> 2]
    /\ cpc = "render"
    /\ cw[1].items = <<"foo-0">>
    /\ Len(cw[2].items) = CtxItems - 1
    /\ cfocus = 1

-----------------------------------------------------------------------------
(* One widget tree rendered frame after frame (SpecRender) *)

InitRender ==
    /\ ProcIdle
    /\ ListIdle
    /\ CtxIdle
    /\ oc \in BOOLEAN
    /\ rui \in LayoutApps
    /\ rpc = "rect"
    /\ screen = ScreenRectOf(0, 0)
    /\ drawn = <<>>

\* screen_rect(): the terminal has cols x rows cells now
ScreenRect ==
    /\ rpc = "rect"
    /\ \E cols \in 1..MaxCols, rows \in 1..MaxRows :
          screen' = ScreenRectOf(cols, rows)
    /\ rpc' = "render"
    /\ UNCHANGED <<rui, drawn>>
    /\ UNCHANGED <<oc, QUIT, procVars, listVars, ctxVars>>

\* ui.render(&rect)
RenderUi ==
    /\ rpc = "render"
    /\ drawn' = RenderWidget(rui, Root, screen)
    /\ rpc' = "rect"
    /\ UNCHANGED <<rui, screen>>
    /\ UNCHANGED <<oc, QUIT, procVars, listVars, ctxVars>>

NextRender ==
    \/ ScreenRect
    \/ RenderUi

SpecRender == InitRender /\ [][NextRender]_vars

-----------------------------------------------------------------------------
(* Properties of rendering (SpecRender) *)

\* widget n's render was called in the last frame, and with which Rect
Rendered(n) ==
    \E k \in 1..Len(drawn) : drawn[k].node = n /\ drawn[k].what = "render"

RectOf(n) ==
    drawn[CHOOSE k \in 1..Len(drawn) :
              drawn[k].node = n /\ drawn[k].what = "render"].rect

\* the HBoxes and VBoxes with children that were rendered
BoxesDrawn ==
    {n \in Nodes(rui) : /\ rui[n].kind \in {"HBox", "VBox"}
                        /\ Len(rui[n].kids) > 0
                        /\ Rendered(n)}

\* a Rect along the primary axis of box n, and along the other axis
Origin(n, r) == IF rui[n].kind = "HBox" THEN r.x ELSE r.y

Size(n, r) == IF rui[n].kind = "HBox" THEN r.w ELSE r.h

Across(n, r) == IF rui[n].kind = "HBox" THEN <<r.y, r.h>> ELSE <<r.x, r.w>>

\* the Rect of child i (from 0) of box n
Child(n, i) == RectOf(rui[n].kids[i + 1])

\* the exact value of an f32 counted in units of 2^u, and the unit in which
\* all that box n computes is whole: the least exponent
Units(a, u) == IF a.m = 0 THEN 0 ELSE a.m * Pow2(a.e - u)

Unit(n) ==
    LET N == Len(rui[n].kids)
        fs == {Origin(n, RectOf(n)), Size(n, RectOf(n))}
              \cup {Origin(n, Child(n, i)) : i \in 0..(N - 1)}
              \cup {Size(n, Child(n, i)) : i \in 0..(N - 1)}
        es == {f.e : f \in {g \in fs : g.m # 0}}
    IN  IF es = {} THEN 0 ELSE CHOOSE e \in es : \A d \in es : e <= d

Abs(x) == IF x < 0 THEN -x ELSE x

\* the sizes of the children of box n from child i on, added up exactly
RECURSIVE SumSizes(_, _)
SumSizes(n, i) ==
    IF i >= Len(rui[n].kids) THEN 0
    ELSE Units(Size(n, Child(n, i)), Unit(n)) + SumSizes(n, i + 1)

\* between the end of child i and the start of child i + 1 of box n:
\* positive is a gap, negative an overlap
Gap(n, i) ==
    Units(Origin(n, Child(n, i + 1)), Unit(n))
        - Units(Origin(n, Child(n, i)), Unit(n))
        - Units(Size(n, Child(n, i)), Unit(n))

\* C12, as claimed: HBox and VBox give each of their N > 0 children a segment
\* of size S/N that starts at origin + i * (S/N) and has the full extent on
\* the other axis; consecutive segments are adjacent, no gap and no overlap,
\* and the sizes sum to S.
C12_EvenSegments ==
    \A n \in BoxesDrawn :
        LET N == Len(rui[n].kids)
            R == RectOf(n)
            U(a) == Units(a, Unit(n))
        IN  /\ \A i \in 0..(N - 1) :
                  /\ N * U(Size(n, Child(n, i))) = U(Size(n, R))
                  /\ N * (U(Origin(n, Child(n, i))) - U(Origin(n, R)))
                        = i * U(Size(n, R))
                  /\ Across(n, Child(n, i)) = Across(n, R)
            /\ \A i \in 0..(N - 2) : Gap(n, i) = 0
            /\ SumSizes(n, 0) = U(Size(n, R))

\* C12, amended: each of the N > 0 children gets the size S/N rounded to
\* f32, starts at origin + i * size as f32 computes it and has the full
\* extent on the other axis; the segments are adjacent and add up to S up
\* to rounding: a gap or overlap is at most two units in the last place of
\* the later start, the sum is within N/2 units in the last place of the
\* size, and both are exact for N = 1.
C12_EvenSegmentsRounded ==
    \A n \in BoxesDrawn :
        LET N == Len(rui[n].kids)
            R == RectOf(n)
            size == DivUsize(Size(n, R), N)
            U(a) == Units(a, Unit(n))
            Ulp(a) == Pow2(a.e - Unit(n))
        IN  /\ \A i \in 0..(N - 1) :
                  /\ Size(n, Child(n, i)) = size
                  /\ Origin(n, Child(n, i))
                        = FAdd(Origin(n, R), MulUsize(size, i))
                  /\ Across(n, Child(n, i)) = Across(n, R)
            /\ \A i \in 0..(N - 2) :
                  Abs(Gap(n, i)) <= 2 * Ulp(Origin(n, Child(n, i + 1)))
            /\ 2 * Abs(SumSizes(n, 0) - U(Size(n, R))) <= N * Ulp(size)
            /\ N = 1 => Child(n, 0) = R

\* C12 witness: a box of five children whose sizes do not add up to S and
\* whose fourth and fifth child are not adjacent
C12_Witness ==
    \E n \in BoxesDrawn :
        /\ Len(rui[n].kids) = 5
        /\ SumSizes(n, 0) # Units(Size(n, RectOf(n)), Unit(n))
        /\ Gap(n, 3) # 0

\* the rows that ItemList n drew in the last frame
RowsDrawn(n) ==
    SelectSeq(drawn, LAMBDA d : d.node = n /\ d.what = "mv")

ListsDrawn == {n \in Nodes(rui) : rui[n].kind = "ItemList" /\ Rendered(n)}

\* C13: ItemList::render draws item i only if i < rect.h: the rows drawn are
\* at most rect.h and none is below the rectangle.
C13_RowsWithinRect ==
    \A n \in ListsDrawn :
        LET rows == RowsDrawn(n)
            R == RectOf(n)
        IN  /\ \A k \in 1..Len(rows) :
                  /\ ~FGe(AsF32(rows[k].i), R.h)
                  /\ ~FGe(rows[k].rect.y, FAdd(R.y, R.h))
            /\ FGe(R.h, AsF32(Len(rows)))

\* a list of three items rendered in a rectangle two rows high has drawn all
\* three, the third on the line below the rectangle
C13_RowBelow ==
    /\ rui = AppItemList
    /\ screen.h = AsF32(2)
    /\ Len(RowsDrawn(2)) = 3
    /\ RowsDrawn(2)[3].line = 2

-----------------------------------------------------------------------------
(* The process *)

Init ==
    /\ ProcIdle
    /\ oc \in BOOLEAN
    /\ ListIdle
    /\ CtxIdle
    /\ RenderIdle

\* main builds a widget tree and calls exec: initscr .. set_hook
CallExec ==
    /\ pc = "main"
    /\ runs < MaxRuns
    /\ \E t \in Apps :
          /\ ui' = t
          /\ w' = NewWidgets(t)
    /\ runs' = runs + 1
    /\ hooks' = hooks + 1
    /\ pc' = "check"
    /\ calls' = <<"initscr">>
    /\ keys' = <<>>
    /\ log' = <<>>
    /\ quitAt' = 0
    /\ UNCHANGED <<listVars, ctxVars, renderVars>>
    /\ UNCHANGED <<QUIT, hookAt, oc, key, panicIn>>

\* main calls quit() outside exec
QuitInMain ==
    /\ pc = "main"
    /\ runs < MaxRuns
    /\ ~QUIT
    /\ QUIT' = TRUE
    /\ UNCHANGED <<listVars, ctxVars, renderVars>>
    /\ UNCHANGED <<pc, hooks, hookAt, oc, runs, ui, w, key, calls, keys, log,
                   quitAt, panicIn>>

\* a panic starts the hook chain at the hook installed last
StartPanic(where) ==
    /\ pc' = "hook"
    /\ hookAt' = hooks
    /\ panicIn' = where

\* main panics outside exec
PanicInMain ==
    /\ pc = "main"
    /\ StartPanic("main")
    /\ UNCHANGED <<listVars, ctxVars, renderVars>>
    /\ UNCHANGED <<QUIT, hooks, oc, runs, ui, w, key, calls, keys, log, quitAt>>

\* a loop check that reads the flag and leaves it set
LoopCheckLoad ==
    /\ pc = "check"
    /\ pc' = IF QUIT THEN "endwin" ELSE "erase"
    /\ UNCHANGED <<listVars, ctxVars, renderVars>>
    /\ UNCHANGED <<QUIT, hooks, hookAt, oc, runs, ui, w, key, calls, keys, log,
                   quitAt, panicIn>>

\* while !QUIT.swap(false, Ordering::Relaxed)
LoopCheck ==
    /\ pc = "check"
    /\ QUIT' = FALSE
    /\ pc' = IF QUIT THEN "endwin" ELSE "erase"
    /\ UNCHANGED <<listVars, ctxVars, renderVars>>
    /\ UNCHANGED <<hooks, hookAt, oc, runs, ui, w, key, calls, keys, log,
                   quitAt, panicIn>>

Erase ==
    /\ pc = "erase"
    /\ pc' = "render"
    /\ calls' = Append(calls, "erase")
    /\ UNCHANGED <<listVars, ctxVars, renderVars>>
    /\ UNCHANGED <<QUIT, hooks, hookAt, oc, runs, ui, w, key, keys, log,
                   quitAt, panicIn>>

\* ui.render(&screen_rect())
Render ==
    /\ pc = "render"
    /\ calls' = Append(calls, "render")
    /\ \E r \in RenderOutcomes(ui) :
          IF r = "panic"
          THEN StartPanic("render")
          ELSE pc' = "getch" /\ UNCHANGED <<hookAt, panicIn>>
    /\ UNCHANGED <<listVars, ctxVars, renderVars>>
    /\ UNCHANGED <<QUIT, hooks, oc, runs, ui, w, key, keys, log, quitAt>>

\* a loop that reads a key and goes round without dispatching it
GetchNoDispatch ==
    /\ pc = "getch"
    /\ Len(keys) < MaxFrames
    /\ \E k \in Keys :
          /\ key' = k
          /\ keys' = Append(keys, k)
    /\ pc' = "check"
    /\ calls' = Append(calls, "getch")
    /\ UNCHANGED <<listVars, ctxVars, renderVars>>
    /\ UNCHANGED <<QUIT, hooks, hookAt, oc, runs, ui, w, log, quitAt, panicIn>>

\* let key = getch()
Getch ==
    /\ pc = "getch"
    /\ Len(keys) < MaxFrames
    /\ \E k \in Keys :
          /\ key' = k
          /\ keys' = Append(keys, k)
    /\ pc' = "dispatch"
    /\ calls' = Append(calls, "getch")
    /\ UNCHANGED <<listVars, ctxVars, renderVars>>
    /\ UNCHANGED <<QUIT, hooks, hookAt, oc, runs, ui, w, log, quitAt, panicIn>>

\* ui.handle_event(&Event::KeyStroke(key))
Dispatch ==
    /\ pc = "dispatch"
    /\ LET st == Dispatched(ui, w, QUIT, oc, KeyStroke(key))
       IN  /\ w' = st.w
           /\ QUIT' = st.quit
           /\ log' = st.log
           /\ calls' = Append(calls, "dispatch")
           /\ quitAt' = IF \E i \in 1..Len(st.log) : st.log[i].what = "quit"
                        THEN Len(calls')
                        ELSE quitAt
           /\ IF st.panicked
              THEN StartPanic("dispatch")
              ELSE pc' = "check" /\ UNCHANGED <<hookAt, panicIn>>
    /\ UNCHANGED <<listVars, ctxVars, renderVars>>
    /\ UNCHANGED <<hooks, oc, runs, ui, key, keys>>

\* the endwin() after the loop, and the return to main
Endwin ==
    /\ pc = "endwin"
    /\ pc' = "main"
    /\ calls' = Append(calls, "endwin")
    /\ UNCHANGED <<listVars, ctxVars, renderVars>>
    /\ UNCHANGED <<QUIT, hooks, hookAt, oc, runs, ui, w, key, keys, log,
                   quitAt, panicIn>>

\* one hook installed by exec: endwin(), then the hook it replaced
HookStep ==
    /\ pc = "hook"
    /\ hookAt > 0
    /\ hookAt' = hookAt - 1
    /\ calls' = Append(calls, "hook_endwin")
    /\ UNCHANGED <<listVars, ctxVars, renderVars>>
    /\ UNCHANGED <<pc, QUIT, hooks, oc, runs, ui, w, key, keys, log, quitAt,
                   panicIn>>

\* the default hook reports the panic; the process unwinds and ends
DefaultHook ==
    /\ pc = "hook"
    /\ hookAt = 0
    /\ pc' = "dead"
    /\ calls' = Append(calls, "default_hook")
    /\ UNCHANGED <<listVars, ctxVars, renderVars>>
    /\ UNCHANGED <<QUIT, hooks, hookAt, oc, runs, ui, w, key, keys, log,
                   quitAt, panicIn>>

Next ==
    \/ CallExec
    \/ QuitInMain
    \/ PanicInMain
    \/ LoopCheck
    \/ Erase
    \/ Render
    \/ Getch
    \/ Dispatch
    \/ Endwin
    \/ HookStep
    \/ DefaultHook

Spec == Init /\ [][Next]_vars

-----------------------------------------------------------------------------
(* Properties of the process (Spec) *)

Count(s, x) == Cardinality({i \in 1..Len(s) : s[i] = x})

\* the position of the first x in s (Len(s) + 1 if there is none)
First(s, x) ==
    IF \E i \in 1..Len(s) : s[i] = x
    THEN CHOOSE i \in 1..Len(s) : s[i] = x /\ \A j \in 1..(i - 1) : s[j] # x
    ELSE Len(s) + 1

\* C1, as claimed: when a panic in render or dispatch has ended the process,
\* endwin has been called exactly once since exec was entered, and before
\* the default panic hook ran.
C1_EndwinOnceBeforeDefaultHook ==
    (pc = "dead" /\ panicIn \in {"render", "dispatch"}) =>
        /\ Count(calls, "hook_endwin") + Count(calls, "endwin") = 1
        /\ First(calls, "hook_endwin") < First(calls, "default_hook")

\* C2: once a dispatch that called quit() has returned, exec renders nothing
\* and reads no key any more: the flag is still set when the loop tests it,
\* the only call that follows is the one endwin, and exec returns.
C2_QuitStopsLoop ==
    (quitAt > 0 /\ panicIn = "none") =>
        /\ calls[quitAt] = "dispatch"
        /\ pc \in {"check", "endwin", "main"}
        /\ pc = "check" => QUIT
        /\ SubSeq(calls, quitAt + 1, Len(calls)) =
              IF pc = "main" THEN <<"endwin">> ELSE <<>>

\* C2 witness: exec has returned after a handler asked to quit
C2_Witness ==
    /\ quitAt > 0
    /\ panicIn = "none"
    /\ pc = "main"
    /\ Last(calls) = "endwin"

Frame == <<"erase", "render", "getch", "dispatch">>

InFrame(c) == \E i \in 1..Len(Frame) : Frame[i] = c

\* C3: inside exec the calls go erase, render, getch, dispatch, round and
\* round (calls[1] is initscr); every key read is dispatched once, as the
\* KeyStroke event of that key, to the root widget, and nothing of a frame
\* follows the endwin.
C3_FrameOrder ==
    /\ \A i \in 2..Len(calls) :
          \/ calls[i] = Frame[((i - 2) % 4) + 1]
          \/ ~InFrame(calls[i]) /\ \A j \in i..Len(calls) : ~InFrame(calls[j])
    /\ Count(calls, "getch") = Len(keys)
    /\ Count(calls, "dispatch") = Len(keys) - (IF pc = "dispatch" THEN 1 ELSE 0)
    /\ (Len(calls) > 0 /\ Last(calls) = "dispatch") =>
          /\ key = Last(keys)
          /\ log[1] = [node |-> Root, what |-> "recv", event |-> KeyStroke(key)]
          /\ Cardinality({i \in 1..Len(log) :
                             log[i].node = Root /\ log[i].what = "recv"}) = 1

\* C3 witness: the second frame's key has been dispatched
C3_Witness ==
    /\ Len(keys) = 2
    /\ pc = "check"
    /\ calls = <<"initscr">> \o Frame \o Frame

CountLog(n, what) ==
    Cardinality({i \in 1..Len(log) : log[i].node = n /\ log[i].what = what})

\* the log of the last dispatch is cut short by a panic
Unwound == panicIn = "dispatch"

Boxes(t) == {n \in Nodes(t) : t[n].kind \in {"HBox", "VBox"}}

\* what container c and its children received, in order
Deliveries(t, c) ==
    SelectSeq(log, LAMBDA x : /\ x.what = "recv"
                               /\ \/ x.node = c
                                  \/ \E i \in 1..Len(t[c].kids) :
                                        t[c].kids[i] = x.node)

\* C6: whenever a container receives an event, each of its children receives
\* that same event once, child 0 first, whatever the nesting; only a panic
\* that unwinds the dispatch cuts the round short.
C6_ContainerForwardsToAll ==
    \A c \in Boxes(ui) :
        LET d == Deliveries(ui, c)
            round == <<c>> \o ui[c].kids
        IN  /\ \A i \in 1..Len(d) :
                  /\ d[i].node = round[((i - 1) % Len(round)) + 1]
                  /\ d[i].event = d[i - ((i - 1) % Len(round))].event
            /\ ~Unwound => Len(d) % Len(round) = 0

\* C6 witness: a dispatch has returned in which the nested containers were
\* reached and the last child of the inner one received the event
C6_Witness ==
    /\ ui = AppBoxes
    /\ pc = "check"
    /\ CountLog(2, "recv") = 1
    /\ CountLog(8, "recv") = 1
    /\ CountLog(3, "recv") = 1
    /\ CountLog(7, "recv") = 1

Proxies(t, kind) == {n \in Nodes(t) : t[n].kind = kind}

\* the handler invocations of proxy p that returned
Returned(p) ==
    CountLog(p, "handler")
    - (IF Unwound /\ Last(log).node = p /\ Last(log).what = "handler"
       THEN 1 ELSE 0)

\* C7, as claimed: every proxy, HardProxy or Proxy, runs its handler once per
\* event, and the wrapped widget receives an event only when the handler
\* forwards it.
C7_ForwardingNeverAutomatic ==
    \A p \in Proxies(ui, "HardProxy") \cup Proxies(ui, "Proxy") :
        /\ CountLog(p, "handler") = CountLog(p, "recv")
        /\ CountLog(Wrapped(ui, p), "recv") = CountLog(p, "forward")

\* C7, amended: every proxy runs its handler once per event; the widget a
\* HardProxy wraps receives an event only when the handler forwards it; the
\* widget a Proxy wraps receives every event once, after the handler has
\* returned, whatever the handler does.
C7_HardProxyLeavesForwardingToHandler ==
    /\ \A p \in Proxies(ui, "HardProxy") :
          /\ CountLog(p, "handler") = CountLog(p, "recv")
          /\ CountLog(Wrapped(ui, p), "recv") = CountLog(p, "forward")
    /\ \A p \in Proxies(ui, "Proxy") :
          /\ CountLog(p, "handler") = CountLog(p, "recv")
          /\ CountLog(Wrapped(ui, p), "recv") = Returned(p)

\* C7 witness: in one dispatch a HardProxy's handler kept the event from its
\* widget and two nested Proxies passed it on
C7_Witness ==
    /\ ui = AppFaulty
    /\ pc = "check"
    /\ CountLog(2, "handler") = 1
    /\ CountLog(5, "recv") = 0
    /\ CountLog(3, "handler") = 1
    /\ CountLog(6, "recv") = 1
    /\ CountLog(7, "recv") = 1

\* where in the log of the last dispatch node n has its entry `what`
Pos(n, what) ==
    CHOOSE i \in 1..Len(log) : log[i].node = n /\ log[i].what = what

\* the handler of proxy p was entered and panicked
HandlerPanicked(p) ==
    Unwound /\ Last(log).node = p /\ Last(log).what = "handler"

\* C15: when a Proxy receives an event its handler runs first and once, and
\* then the same event goes once to the wrapped widget, which does not see
\* it before the handler has returned (a handler that panics never returns,
\* and then the wrapped widget does not see the event at all).
C15_ProxyHandlerThenForward ==
    \A p \in Proxies(ui, "Proxy") :
        LET r == Pos(p, "recv")
            h == Pos(p, "handler")
            f == Pos(Wrapped(ui, p), "recv")
        IN  /\ CountLog(p, "recv") <= 1
            /\ CountLog(p, "handler") = CountLog(p, "recv")
            /\ CountLog(p, "recv") = 1 =>
                  /\ h = r + 1
                  /\ log[h].event = log[r].event
                  /\ IF HandlerPanicked(p)
                     THEN CountLog(Wrapped(ui, p), "recv") = 0
                     ELSE /\ CountLog(Wrapped(ui, p), "recv") = 1
                          /\ f > h
                          /\ log[f].event = log[r].event
                          /\ \A i \in (h + 1)..(f - 1) :
                                log[i].node = p /\ log[i].what = "quit"
            /\ CountLog(p, "recv") = 0 => CountLog(Wrapped(ui, p), "recv") = 0

\* C15 witness: a Proxy whose handler called quit() before it returned, and
\* whose ItemList received the key after that
C15_Witness ==
    /\ ui = AppBoxes
    /\ pc = "check"
    /\ CountLog(3, "quit") = 1
    /\ CountLog(6, "recv") = 1
    /\ Pos(6, "recv") = Pos(3, "handler") + 2
    /\ log[Pos(6, "recv")].event = KeyStroke(key)

\* C17: the hook that exec installs belongs to that exec run: a panic during
\* any run, the first or a later one, calls endwin exactly once, and a panic
\* in main, after exec has returned, calls endwin no more.
C17_HookScopedToRun ==
    pc = "dead" =>
        Count(calls, "hook_endwin") = IF panicIn = "main" THEN 0 ELSE 1

\* what the hooks do: every exec call so far has left one behind, and a
\* panic, wherever it starts, calls endwin once for each
C17_OneEndwinPerExecCall ==
    pc = "dead" => hooks = runs /\ Count(calls, "hook_endwin") = runs

\* exec has returned normally, main has panicked after that, and the hook
\* left behind has called endwin again
C17_EndwinAfterReturn ==
    /\ pc = "dead"
    /\ panicIn = "main"
    /\ runs = 1
    /\ calls = <<"initscr", "endwin", "hook_endwin", "default_hook">>

\* exec has returned normally to main
ExecReturned == pc = "main" /\ runs > 0 /\ panicIn = "none"

\* C18: the loop check that sees a quit request clears it: QUIT is false
\* when exec returns; a run ends only at a check that finds the flag set and
\* clears it, and the flag is set by quit() alone, so one request ends one
\* run at most; a request made before exec is entered ends that run at its
\* first check, nothing rendered, no key read, endwin called.
C18_QuitConsumed ==
    /\ [](pc = "endwin" => ~QUIT)
    /\ []((pc = "endwin" /\ quitAt = 0) => calls = <<"initscr">>)
    /\ []((ExecReturned /\ quitAt = 0) => calls = <<"initscr", "endwin">>)
    /\ [][(pc = "check" /\ pc' = "endwin") => (QUIT /\ ~QUIT')]_vars
    /\ [][(pc = "check" /\ QUIT) => (pc' = "endwin" /\ calls' = calls)]_vars
    /\ [][(pc = "endwin") => (pc' = "main" /\ ~QUIT')]_vars
    /\ [][(~QUIT /\ QUIT') =>
             \/ pc = "main"
             \/ pc = "dispatch" /\ \E i \in 1..Len(log') : log'[i].what = "quit"
         ]_vars

\* C18 witness: quit() was called before the second exec call, which has
\* returned without a frame, and the flag is clear again
C18_Witness ==
    /\ ExecReturned
    /\ runs = 2
    /\ quitAt = 0
    /\ calls = <<"initscr", "endwin">>
    /\ ~QUIT

=============================================================================
